---- MODULE Spec2Model ----
(***************************************************************************)
(* Tensor-structure generator of treeamps-core (generator.rs) with its     *)
(* ordering (dot_product.rs, tensor_structure.rs) and the gen-ts driver    *)
(* (treeamps-cli main.rs).                                                 *)
(*                                                                         *)
(* The recursion of dfs_emit is unfolded into an explicit call stack: one  *)
(* frame per active call, one step per node test, per loop iteration and   *)
(* per return.  Catalog indices are 0-based as in the source; the TLA+     *)
(* sequence holding the catalog is read at index i + 1.                    *)
(***************************************************************************)
EXTENDS Integers, Sequences, FiniteSets, TLC

(* ------------------------------ bounds -------------------------------- *)
\* largest leg count handed to the search
MaxLegs == 3
\* largest target degree / EE count handed to the search
MaxDeg == 2

(* ------------------------- program constants -------------------------- *)
\* n_legs : u8 and LegIndex(pub u8)
U8Max == 255
\* the leg count of the driver's fixed-case comparisons
SanityLegs == 4
SanityMixedDeg == 3
SanityMixedEE == 1
expected_one_pol == 24
SanityPureDeg == 2
SanityPureEE == 2
expected_pure_ee == 3

VARIABLES
    build,          \* "debug" (overflow checks on) or "release" (wrapping)
    pc,             \* position of the caller
    op,             \* entry point in progress: "gen", "count", "cli", "none"
    cfg,            \* GenConfig
    target_degree,  \* argument of generate_tensor_structures
    ee_contractions,\* argument of generate_tensor_structures
    lists,          \* (pp, pe, ee) returned by generate_valid_factors
    s,              \* DfsState
    stack,          \* active calls of dfs_emit, innermost last
    out_set,        \* BTreeSet<TensorStructure>
    result,         \* Vec<TensorStructure> returned by the generator
    counts,         \* CatalogCounts returned by count_valid_factors
    prev,           \* the caller's copy of the preceding call's result
    sanity          \* lines printed by the driver's fixed-case comparisons

vars == <<build, pc, op, cfg, target_degree, ee_contractions, lists, s,
          stack, out_set, result, counts, prev, sanity>>

(* --------------------------- types.rs --------------------------------- *)
ScalarKind == {"PP", "PE", "EE"}

\* variant of KindRank: EE is ranked below PE
KindRank_EEBeforePE(k) == CASE k = "PP" -> 0 [] k = "PE" -> 2 [] k = "EE" -> 1

\* derive(Ord) on the enum: declaration order
KindRank(k) == CASE k = "PP" -> 0 [] k = "PE" -> 1 [] k = "EE" -> 2

Transversality == {"None", "ForbidPiDotEi"}

PolarizationPattern == {"Unrestricted", "OnePerLeg"}

(* ------------------------- dot_product.rs ----------------------------- *)
ScalarFactor(k, i, j) == [kind |-> k, a |-> i, b |-> j]

\* Ord for ScalarFactor: kind, then a, then b
FactorCmp(f, g) ==
    IF KindRank(f.kind) # KindRank(g.kind)
    THEN (IF KindRank(f.kind) < KindRank(g.kind) THEN -1 ELSE 1)
    ELSE IF f.a # g.a THEN (IF f.a < g.a THEN -1 ELSE 1)
    ELSE IF f.b # g.b THEN (IF f.b < g.b THEN -1 ELSE 1)
    ELSE 0

FactorLeq(f, g) == FactorCmp(f, g) <= 0

IsSortedFactors(fs) == \A k \in 1..(Len(fs) - 1) : FactorLeq(fs[k], fs[k + 1])

\* slice::sort on factors: the stable ascending permutation.  Element k of
\* the input lands behind the elements smaller than it and behind the equal
\* ones that precede it; an input already ascending is its own sort.
SortFactors(fs) ==
    IF IsSortedFactors(fs) THEN fs
    ELSE LET pos(k) == 1 + Cardinality({m \in 1..Len(fs) :
                              \/ FactorCmp(fs[m], fs[k]) < 0
                              \/ FactorCmp(fs[m], fs[k]) = 0 /\ m < k})
         IN [p \in 1..Len(fs) |-> fs[CHOOSE k \in 1..Len(fs) : pos(k) = p]]

(* ----------------------- tensor_structure.rs -------------------------- *)
NewTensorStructure == [factors |-> <<>>, ee_contractions |-> 0]

canonicalize(t) == [t EXCEPT !.factors = SortFactors(t.factors)]

\* Vec<ScalarFactor>::cmp: lexicographic, a proper prefix is smaller
RECURSIVE SeqCmp(_, _)
SeqCmp(x, y) ==
    IF x = <<>> /\ y = <<>> THEN 0
    ELSE IF x = <<>> THEN -1
    ELSE IF y = <<>> THEN 1
    ELSE IF FactorCmp(Head(x), Head(y)) # 0 THEN FactorCmp(Head(x), Head(y))
    ELSE SeqCmp(Tail(x), Tail(y))

\* Ord for TensorStructure compares the factor sequences only
StructCmp(t, u) == SeqCmp(t.factors, u.factors)

\* A BTreeSet<TensorStructure> is held as the ascending sequence of its
\* members, the order in which it iterates.
\* BTreeSet::insert: t goes behind the members that compare Less; a member
\* comparing Equal keeps its place and t is dropped.  (A t above the last
\* member is decided by that one comparison.)
SetInsert(set, t) ==
    IF set = <<>> \/ StructCmp(set[Len(set)], t) < 0 THEN Append(set, t)
    ELSE IF \E k \in 1..Len(set) : StructCmp(set[k], t) = 0 THEN set
    ELSE LET below == Cardinality({k \in 1..Len(set) :
                                      StructCmp(set[k], t) < 0})
         IN SubSeq(set, 1, below) \o <<t>> \o SubSeq(set, below + 1, Len(set))

\* BTreeSet::into_iter().collect(): the members in iteration order
SetToVec(set) == [k \in 1..Len(set) |-> set[k]]

(* --------------------- generator.rs: the catalog ---------------------- *)
GenConfig(n, t, p) == [n_legs |-> n, transversality |-> t, pol_pattern |-> p]

\* u8 addition as the release build computes it
U8Add(x, y) == (x + y) % (U8Max + 1)

\* u8 addition leaves the type's range (the debug build panics there)
U8Overflows(x, y) == x + y > U8Max

\* lo..=hi as the ascending sequence it iterates; empty when lo > hi
RangeInclusive(lo, hi) == [k \in 1..(hi - lo + 1) |-> lo + k - 1]

\* the pairs the PP loop body keeps
PPKept(n, i, j) == ~(i = n \/ j = n)

\* variant of PEKept: the pair (1, n) is not excluded
PEKept_NoLegNExclusion(c, i, j) ==
    ~(c.transversality = "ForbidPiDotEi" /\ i = j)

\* the pairs the PE inner loop body keeps
PEKept(c, i, j) ==
    /\ ~(c.transversality = "ForbidPiDotEi" /\ i = j)
    /\ ~(j = c.n_legs /\ i = 1)

\* the pushes of one iteration of an outer loop `for i in 1..=n`
LoopRow(kind, c, i) ==
    LET n == c.n_legs
        js == CASE kind = "PP" ->
                     SelectSeq(RangeInclusive(U8Add(i, 1), n),
                               LAMBDA j : PPKept(n, i, j))
                [] kind = "PE" ->
                     IF i = n THEN <<>>
                     ELSE SelectSeq(RangeInclusive(1, n),
                                    LAMBDA j : PEKept(c, i, j))
                [] kind = "EE" -> RangeInclusive(U8Add(i, 1), n)
    IN [k \in 1..Len(js) |-> ScalarFactor(kind, i, js[k])]

\* the pushes of iterations lo..hi of the outer loop, in push order
\* (the range is halved so that the evaluation stays shallow)
RECURSIVE LoopRows(_, _, _, _)
LoopRows(kind, c, lo, hi) ==
    IF lo > hi THEN <<>>
    ELSE IF lo = hi THEN LoopRow(kind, c, lo)
    ELSE LET mid == (lo + hi) \div 2
         IN LoopRows(kind, c, lo, mid) \o LoopRows(kind, c, mid + 1, hi)

\* some evaluation of the pair loops' lower bound i + 1 leaves u8
LoopBoundOverflows(c) == \E i \in 1..c.n_legs : U8Overflows(i, 1)

generate_valid_factors(c, b) ==
    IF b = "debug" /\ LoopBoundOverflows(c)
    THEN [panicked |-> TRUE, pp |-> <<>>, pe |-> <<>>, ee |-> <<>>]
    ELSE [panicked |-> FALSE,
          pp |-> SortFactors(LoopRows("PP", c, 1, c.n_legs)),
          pe |-> SortFactors(LoopRows("PE", c, 1, c.n_legs)),
          ee |-> SortFactors(LoopRows("EE", c, 1, c.n_legs))]

CatalogCounts(l) ==
    [num_pp |-> Len(l.pp), num_pe |-> Len(l.pe), num_ee |-> Len(l.ee)]

NoLists == [panicked |-> FALSE, pp |-> <<>>, pe |-> <<>>, ee |-> <<>>]

NoCounts == [num_pp |-> 0, num_pe |-> 0, num_ee |-> 0]

(* --------------------- generator.rs: the search ----------------------- *)
\* A u32 (target_deg, ee_needed, pe_so_far, pol_count, deg, ee) is held as
\* its two's-complement reading: the value v < 2^31 as v, the value
\* v >= 2^31 as v - 2^32.  Wrapping +, - and * are then the integer ones, and
\* the unsigned order puts every negative reading above every other.
U32Add(x, y) == x + y

U32Sub(x, y) == x - y

U32Mul(x, y) == x * y

U32Gt(x, y) == IF (x < 0) = (y < 0) THEN x > y ELSE x < 0

\* variant of DfsState: the polarization pattern is not passed on
DfsState_PatternIgnored(c, deg, ee, catalog) ==
    [target_deg |-> deg,
     ee_needed |-> ee,
     nlegs |-> c.n_legs,
     enforce_one_pol |-> FALSE,
     catalog |-> catalog,
     cur |-> NewTensorStructure,
     pe_so_far |-> 0,
     pol_count |-> [r \in 0..c.n_legs |-> 0]]

\* lines 240-249
DfsState(c, deg, ee, catalog) ==
    [target_deg |-> deg,
     ee_needed |-> ee,
     nlegs |-> c.n_legs,
     enforce_one_pol |-> (c.pol_pattern = "OnePerLeg"),
     catalog |-> catalog,
     cur |-> NewTensorStructure,
     pe_so_far |-> 0,
     pol_count |-> [r \in 0..c.n_legs |-> 0]]

NoState == DfsState(GenConfig(0, "None", "Unrestricted"), 0, 0, <<>>)

add_polarizations(pcnt, f) ==
    CASE f.kind = "PE" -> [pcnt EXCEPT ![f.b] = U32Add(@, 1)]
      [] f.kind = "EE" -> [[pcnt EXCEPT ![f.a] = U32Add(@, 1)]
                                 EXCEPT ![f.b] = U32Add(@, 1)]
      [] f.kind = "PP" -> pcnt

\* variant of remove_polarizations: an EE factor releases its first leg only
remove_polarizations_EEFirstOnly(pcnt, f) ==
    CASE f.kind = "PE" -> [pcnt EXCEPT ![f.b] = U32Sub(@, 1)]
      [] f.kind = "EE" -> [pcnt EXCEPT ![f.a] = U32Sub(@, 1)]
      [] f.kind = "PP" -> pcnt

remove_polarizations(pcnt, f) ==
    CASE f.kind = "PE" -> [pcnt EXCEPT ![f.b] = U32Sub(@, 1)]
      [] f.kind = "EE" -> [[pcnt EXCEPT ![f.a] = U32Sub(@, 1)]
                                 EXCEPT ![f.b] = U32Sub(@, 1)]
      [] f.kind = "PP" -> pcnt

\* a `-= 1` of the undo sequence would take a u32 below zero
UndoUnderflows(st, f) ==
    \/ /\ st.enforce_one_pol
       /\ f.kind = "PE"
       /\ (st.pol_count[f.b] = 0 \/ st.pe_so_far = 0)
    \/ /\ st.enforce_one_pol
       /\ f.kind = "EE"
       /\ IF f.a = f.b THEN st.pol_count[f.a] \in {0, 1}
          ELSE st.pol_count[f.a] = 0 \/ st.pol_count[f.b] = 0
    \/ f.kind = "EE" /\ st.cur.ee_contractions = 0

deg_so_far(st) == Len(st.cur.factors)

ee_so_far(st) == st.cur.ee_contractions

\* line 135
OverTarget(st) ==
    \/ U32Gt(deg_so_far(st), st.target_deg)
    \/ U32Gt(ee_so_far(st), st.ee_needed)

\* lines 140-144
LegOverused(st) == \E r \in 1..st.nlegs : U32Gt(st.pol_count[r], 1)

\* variant of CannotCover: a remaining factor is taken to cover one leg
CannotCover_OneLegPerFactor(st) ==
    LET remain == U32Sub(st.target_deg, Len(st.cur.factors))
        missing == Cardinality({r \in 1..st.nlegs : st.pol_count[r] = 0})
    IN U32Gt(missing, remain)

\* lines 146-157
CannotCover(st) ==
    LET remain == U32Sub(st.target_deg, deg_so_far(st))
        missing == Cardinality({r \in 1..st.nlegs : st.pol_count[r] = 0})
        max_addable == U32Mul(remain, 2)
    IN U32Gt(missing, max_addable)

\* lines 159-162
TooManyTouches(st) ==
    U32Gt(U32Add(U32Mul(2, ee_so_far(st)), st.pe_so_far), st.nlegs)

\* the early returns of lines 135-163
Pruned(st) ==
    \/ OverTarget(st)
    \/ st.enforce_one_pol
       /\ (LegOverused(st) \/ CannotCover(st) \/ TooManyTouches(st))

\* line 165
AtLeaf(st) == deg_so_far(st) = st.target_deg

\* variant of Accepted: the per-leg test is applied under either pattern
Accepted_AlwaysChecksLegs(st) ==
    /\ st.cur.ee_contractions = st.ee_needed
    /\ U32Add(U32Mul(2, st.cur.ee_contractions), st.pe_so_far) = st.nlegs
    /\ \A r \in 1..st.nlegs : st.pol_count[r] = 1

\* lines 166-181: the leaf is inserted
Accepted(st) ==
    /\ ee_so_far(st) = st.ee_needed
    /\ \/ ~st.enforce_one_pol
       \/ /\ U32Add(U32Mul(2, ee_so_far(st)), st.pe_so_far) = st.nlegs
          /\ \A r \in 1..st.nlegs : st.pol_count[r] = 1

\* lines 188-199: factor f is appended and counted
Chosen(st, f) ==
    LET withF == [st EXCEPT
                    !.cur.factors = Append(@, f),
                    !.cur.ee_contractions =
                        IF f.kind = "EE" THEN U32Add(@, 1) ELSE @]
    IN IF st.enforce_one_pol
       THEN [withF EXCEPT
               !.pe_so_far = IF f.kind = "PE" THEN U32Add(@, 1) ELSE @,
               !.pol_count = add_polarizations(@, f)]
       ELSE withF

\* lines 206-217: the updates of Chosen are undone
Undone(st, f) ==
    LET counters == IF st.enforce_one_pol
                    THEN [st EXCEPT
                            !.pol_count = remove_polarizations(@, f),
                            !.pe_so_far =
                                IF f.kind = "PE" THEN U32Sub(@, 1) ELSE @]
                    ELSE st
    IN [counters EXCEPT
          !.cur.ee_contractions = IF f.kind = "EE" THEN U32Sub(@, 1) ELSE @,
          !.cur.factors = SubSeq(@, 1, Len(@) - 1)]

\* line 204: the start index handed to the recursive call after choosing i
RecurseFrom(i) == i

\* the values a call of dfs_emit finds on entry (kept with its frame)
Snapshot(st) ==
    [cur |-> st.cur, pe_so_far |-> st.pe_so_far, pol_count |-> st.pol_count]

Frame(idx_start, st) ==
    [idx_start |-> idx_start, i |-> idx_start, at |-> "entry",
     entry |-> Snapshot(st)]

Top == stack[Len(stack)]

\* the innermost call has reached a return: an early return, the leaf's
\* return, or the end of its loop
Returning ==
    /\ stack # <<>>
    /\ \/ Top.at = "ret"
       \/ Top.at = "loop" /\ Top.i >= Len(s.catalog)

(* ------------------------------ Init ---------------------------------- *)
NoPrev == [valid |-> FALSE, result |-> <<>>]

Init ==
    /\ build \in {"debug", "release"}
    /\ pc = "idle"
    /\ op = "none"
    /\ cfg = GenConfig(3, "ForbidPiDotEi", "OnePerLeg")
    /\ target_degree = 0
    /\ ee_contractions = 0
    /\ lists = NoLists
    /\ s = NoState
    /\ stack = <<>>
    /\ out_set = <<>>
    /\ result = <<>>
    /\ counts = NoCounts
    /\ prev = NoPrev
    /\ sanity = {}

(* ------------------- generate_tensor_structures ----------------------- *)
\* variant of EarlyReturn: degree zero is searched like any other
EarlyReturn_NoZeroDegree(deg, ee) == U32Gt(ee, deg)

\* lines 226-231: the inputs answered with an empty Vec at once
EarlyReturn(deg, ee) == deg = 0 \/ U32Gt(ee, deg)

\* lines 226-233: the two early returns, then the catalog lists
EnterGenerate(c, deg, ee) ==
    /\ cfg' = c
    /\ target_degree' = deg
    /\ ee_contractions' = ee
    /\ s' = NoState
    /\ stack' = <<>>
    /\ out_set' = <<>>
    /\ IF EarlyReturn(deg, ee)
       THEN /\ result' = <<>>
            /\ pc' = "done"
            /\ lists' = NoLists
       ELSE LET l == generate_valid_factors(c, build)
            IN /\ lists' = l
               /\ result' = <<>>
               /\ pc' = IF l.panicked THEN "panic" ELSE "lists"

Generate(c, deg, ee) ==
    /\ pc = "idle"
    /\ op' = "gen"
    /\ EnterGenerate(c, deg, ee)
    /\ UNCHANGED <<build, counts, prev, sanity>>

\* the caller repeats a finished OnePerLeg call with the Unrestricted
\* pattern, all other inputs equal, and keeps the first result
Regenerate ==
    /\ pc = "done"
    /\ op = "gen"
    /\ cfg.pol_pattern = "OnePerLeg"
    /\ ~prev.valid
    /\ prev' = [valid |-> TRUE, result |-> result]
    /\ EnterGenerate([cfg EXCEPT !.pol_pattern = "Unrestricted"],
                     target_degree, ee_contractions)
    /\ UNCHANGED <<build, op, counts, sanity>>

\* lines 234-252: the lists are moved into the catalog; DfsState, the empty
\* set, the top-level dfs_emit call
BuildSearch ==
    /\ pc = "lists"
    /\ op \in {"gen", "cli"}
    /\ LET st == DfsState(cfg, target_degree, ee_contractions,
                          lists.pp \o lists.pe \o lists.ee)
       IN /\ s' = st
          /\ stack' = <<Frame(0, st)>>
    /\ out_set' = <<>>
    /\ lists' = NoLists
    /\ pc' = "dfs"
    /\ UNCHANGED <<build, op, cfg, target_degree, ee_contractions, result,
                   counts, prev, sanity>>

(* ----------------------------- dfs_emit ------------------------------- *)
\* lines 132-184: prunes and leaf test of the call just entered
DfsEnter ==
    /\ pc = "dfs"
    /\ Top.at = "entry"
    /\ IF Pruned(s)
       THEN /\ stack' = [stack EXCEPT ![Len(stack)].at = "ret"]
            /\ out_set' = out_set
       ELSE IF AtLeaf(s)
       THEN /\ stack' = [stack EXCEPT ![Len(stack)].at = "ret"]
            /\ out_set' = IF Accepted(s)
                          THEN SetInsert(out_set, canonicalize(s.cur))
                          ELSE out_set
       ELSE /\ stack' = [stack EXCEPT ![Len(stack)].at = "loop"]
            /\ out_set' = out_set
    /\ UNCHANGED <<build, pc, op, cfg, target_degree, ee_contractions,
                   lists, s, result, counts, prev, sanity>>

\* lines 186-204: one loop iteration up to and including the recursive call
DfsLoop ==
    /\ pc = "dfs"
    /\ Top.at = "loop"
    /\ Top.i < Len(s.catalog)
    /\ LET f == s.catalog[Top.i + 1]
           st == Chosen(s, f)
       IN /\ s' = st
          /\ stack' = Append([stack EXCEPT ![Len(stack)].at = "called"],
                             Frame(RecurseFrom(Top.i), st))
    /\ UNCHANGED <<build, pc, op, cfg, target_degree, ee_contractions,
                   lists, out_set, result, counts, prev, sanity>>

\* a recursive call returns; lines 206-217 undo the caller's choice and the
\* loop moves to the next index
DfsReturn ==
    /\ pc = "dfs"
    /\ Returning
    /\ Len(stack) > 1
    /\ LET caller == stack[Len(stack) - 1]
           f == s.catalog[caller.i + 1]
       IN IF build = "debug" /\ UndoUnderflows(s, f)
          THEN /\ pc' = "panic"
               /\ UNCHANGED <<s, stack>>
          ELSE /\ pc' = pc
               /\ s' = Undone(s, f)
               /\ stack' = [SubSeq(stack, 1, Len(stack) - 1) EXCEPT
                              ![Len(stack) - 1] =
                                  [caller EXCEPT !.i = caller.i + 1,
                                                 !.at = "loop"]]
    /\ UNCHANGED <<build, op, cfg, target_degree, ee_contractions, lists,
                   out_set, result, counts, prev, sanity>>

\* the top-level call returns; line 253 collects the set
DfsFinish ==
    /\ pc = "dfs"
    /\ Returning
    /\ Len(stack) = 1
    /\ stack' = <<>>
    /\ result' = SetToVec(out_set)
    /\ pc' = "done"
    /\ UNCHANGED <<build, op, cfg, target_degree, ee_contractions, lists, s,
                   out_set, counts, prev, sanity>>

(* ------------------------ count_valid_factors ------------------------- *)
\* lines 83-90
CountValidFactors(c) ==
    /\ pc = "idle"
    /\ op' = "count"
    /\ cfg' = c
    /\ LET l == generate_valid_factors(c, build)
       IN IF l.panicked
          THEN pc' = "panic" /\ counts' = counts
          ELSE pc' = "done" /\ counts' = CatalogCounts(l)
    /\ UNCHANGED <<build, target_degree, ee_contractions, lists, s, stack,
                   out_set, result, prev, sanity>>

(* ------------------------ main.rs: run_gen_ts ------------------------- *)
\* lines 43-78: validation and inference of deg / ee from the identity
\* deg = n - ee; the two subtractions of lines 52-53 are u32
ResolveArgs(n, deg, ee, b) ==
    LET implied_deg == U32Sub(n, ee)
        implied_ee == U32Sub(n, deg)
        both == deg # 0 /\ ee # 0
        deg2 == IF both THEN deg
                ELSE IF deg = 0 /\ ee # 0 THEN implied_deg
                ELSE IF ee = 0 /\ deg # 0 THEN deg
                ELSE n
        ee2 == IF both THEN ee
               ELSE IF deg = 0 /\ ee # 0 THEN ee
               ELSE IF ee = 0 /\ deg # 0 THEN implied_ee
               ELSE 0
    IN IF n = 0 THEN [outcome |-> "exit", deg |-> deg, ee |-> ee]
       ELSE IF b = "debug" /\ (ee > n \/ deg > n)
       THEN [outcome |-> "panic", deg |-> deg, ee |-> ee]
       ELSE IF both /\ (deg # implied_deg \/ ee # implied_ee)
       THEN [outcome |-> "exit", deg |-> deg, ee |-> ee]
       ELSE IF U32Gt(ee2, deg2)
       THEN [outcome |-> "exit", deg |-> deg2, ee |-> ee2]
       ELSE [outcome |-> "call", deg |-> deg2, ee |-> ee2]

\* lines 42-83; the search is followed for resolved degrees up to the
\* driver's largest leg count
RunGenTs(n, deg, ee) ==
    /\ pc = "idle"
    /\ LET r == ResolveArgs(n, deg, ee, build)
       IN /\ r.outcome = "call" => r.deg \in 0..SanityLegs
          /\ op' = "cli"
          /\ IF r.outcome = "call"
             THEN EnterGenerate(GenConfig(n, "ForbidPiDotEi", "OnePerLeg"),
                                r.deg, r.ee)
             ELSE /\ pc' = r.outcome
                  /\ UNCHANGED <<cfg, target_degree, ee_contractions, lists,
                                 s, stack, out_set, result>>
    /\ UNCHANGED <<build, counts, prev, sanity>>

\* lines 97-126: the fixed-case comparisons for four legs
SanityLines(n, deg, ee, ts) ==
    IF n # SanityLegs THEN {}
    ELSE (IF deg = SanityMixedDeg /\ ee = SanityMixedEE
          THEN {[check |-> "Sanity-one-pol-per-leg",
                 ok |-> (expected_one_pol = Len(ts))]}
          ELSE {})
         \cup
         (IF deg = SanityPureDeg /\ ee = SanityPureEE
          THEN {[check |-> "Sanity-4g-pure-EE-one-pol",
                 ok |-> (expected_pure_ee = Len(ts))]}
          ELSE {})

\* lines 84-126
PrintSanity ==
    /\ pc = "done"
    /\ op = "cli"
    /\ sanity' = SanityLines(cfg.n_legs, target_degree, ee_contractions,
                             result)
    /\ pc' = "printed"
    /\ UNCHANGED <<build, op, cfg, target_degree, ee_contractions, lists, s,
                   stack, out_set, result, counts, prev>>

(* --------------------------- specification ---------------------------- *)
\* leg counts handed to the search
SearchLegs == 1..MaxLegs

\* leg counts handed to the catalog builder alone: the search's, and the
\* largest value of the type
CatalogLegs == SearchLegs \cup {U8Max}

\* a caller invokes the generator
CallGenerate ==
    /\ pc = "idle"
    /\ \E n \in SearchLegs, t \in Transversality, p \in PolarizationPattern,
          deg \in 0..MaxDeg, ee \in 0..(MaxDeg + 1) :
          Generate(GenConfig(n, t, p), deg, ee)

\* a caller asks for the catalog sizes
CallCount ==
    /\ pc = "idle"
    /\ \E n \in CatalogLegs, t \in Transversality, p \in PolarizationPattern :
          CountValidFactors(GenConfig(n, t, p))

\* the gen-ts subcommand is run
CallGenTs ==
    /\ pc = "idle"
    /\ \E n \in 0..SanityLegs, deg \in 0..(SanityLegs + 1),
          ee \in 0..(SanityLegs + 1) : RunGenTs(n, deg, ee)

Next ==
    \/ CallGenerate
    \/ Regenerate
    \/ BuildSearch
    \/ DfsEnter
    \/ DfsLoop
    \/ DfsReturn
    \/ DfsFinish
    \/ CallCount
    \/ CallGenTs
    \/ PrintSanity

Spec == Init /\ [][Next]_vars

(* ------------------------------ claims -------------------------------- *)
\* a call of the generator has returned to its caller
Returned == op \in {"gen", "cli"} /\ pc \in {"done", "printed"}

\* the returned structures
Results == {result[k] : k \in 1..Len(result)}

\* number of factors of t in which the polarization of leg r appears
Touches(t, r) ==
    Cardinality({k \in 1..Len(t.factors) :
                    t.factors[k].kind = "PE" /\ t.factors[k].b = r})
    + Cardinality({k \in 1..Len(t.factors) :
                    t.factors[k].kind = "EE" /\ t.factors[k].a = r})
    + Cardinality({k \in 1..Len(t.factors) :
                    t.factors[k].kind = "EE" /\ t.factors[k].b = r})

\* number of EE-kind factors of a factor sequence
CountEE(fs) == Cardinality({k \in 1..Len(fs) : fs[k].kind = "EE"})

OnePolPerLeg(t, n) == \A r \in 1..n : Touches(t, r) = 1

\* C1: under OnePerLeg every returned structure has exactly target_degree
\* factors, exactly ee_contractions EE factors, and touches the polarization
\* of each leg 1..n_legs exactly once.
C1_OnePerLegShape ==
    (Returned /\ cfg.pol_pattern = "OnePerLeg") =>
        \A t \in Results :
            /\ Len(t.factors) = target_degree
            /\ CountEE(t.factors) = ee_contractions
            /\ OnePolPerLeg(t, cfg.n_legs)

C1_Witness ==
    /\ Returned
    /\ cfg.pol_pattern = "OnePerLeg"
    /\ cfg.n_legs >= 3
    /\ Len(result) >= 2
    /\ \E t \in Results : CountEE(t.factors) = 1 /\ Len(t.factors) = 2

\* the driver's four-leg configuration
SanityConfig ==
    /\ cfg = GenConfig(SanityLegs, "ForbidPiDotEi", "OnePerLeg")

\* C2: four legs, OnePerLeg, self-dot forbidden: exactly 24 distinct
\* structures for (degree 3, ee 1) and exactly 3 for (degree 2, ee 2).
C2_SanityCounts ==
    (Returned /\ SanityConfig) =>
        /\ (target_degree = SanityMixedDeg /\ ee_contractions = SanityMixedEE)
             => (Len(result) = expected_one_pol
                 /\ Cardinality(Results) = expected_one_pol)
        /\ (target_degree = SanityPureDeg /\ ee_contractions = SanityPureEE)
             => (Len(result) = expected_pure_ee
                 /\ Cardinality(Results) = expected_pure_ee)

C2_Witness ==
    /\ pc = "printed"
    /\ SanityConfig
    /\ target_degree = SanityMixedDeg
    /\ ee_contractions = SanityMixedEE
    /\ sanity = {[check |-> "Sanity-one-pol-per-leg", ok |-> TRUE]}

\* the pairs the catalog is claimed to consist of
ClaimedPP(c, i, j) == 1 <= i /\ i < j /\ j < c.n_legs

ClaimedPE(c, i, j) ==
    /\ i \in 1..(c.n_legs - 1)
    /\ j \in 1..c.n_legs
    /\ ~(i = 1 /\ j = c.n_legs)
    /\ (c.transversality = "ForbidPiDotEi" => i # j)

ClaimedEE(c, i, j) == 1 <= i /\ i < j /\ j <= c.n_legs

\* the order the claims state: kind PP < PE < EE, then a, then b
ClaimedFactorLess(f, g) ==
    \/ <<f.kind, g.kind>> \in {<<"PP", "PE">>, <<"PP", "EE">>, <<"PE", "EE">>}
    \/ /\ f.kind = g.kind
       /\ (f.a < g.a \/ (f.a = g.a /\ f.b < g.b))

\* strictly ascending: sorted and free of duplicates
StrictlyAscending(fs) ==
    \A k \in 1..(Len(fs) - 1) : ClaimedFactorLess(fs[k], fs[k + 1])

\* number of claimed pairs
ClaimedSize(c, Claimed(_, _, _)) ==
    Cardinality({ij \in (1..c.n_legs) \X (1..c.n_legs) :
                    Claimed(c, ij[1], ij[2])})

\* fs lists exactly the claimed pairs of its kind, ascending and without
\* duplicates: every member is a claimed pair, the order is strict, and
\* there are as many members as claimed pairs
ListIs(fs, kind, c, Claimed(_, _, _)) ==
    /\ \A k \in 1..Len(fs) :
          fs[k].kind = kind /\ Claimed(c, fs[k].a, fs[k].b)
    /\ StrictlyAscending(fs)
    /\ Len(fs) = ClaimedSize(c, Claimed)

\* C3: for every n >= 1 and both transversality modes the catalog builder
\* returns PP = pairs i < j < n, PE = pairs with i <= n-1 without (1, n) and
\* without i = j under ForbidPiDotEi, EE = pairs i < j <= n, each list
\* ascending and duplicate-free.  (Where only the sizes of the lists reach
\* the caller, the sizes are those of the claimed lists.)
C3_CatalogLists ==
    /\ (op \in {"gen", "cli"} /\ pc = "lists") =>
          /\ ListIs(lists.pp, "PP", cfg, ClaimedPP)
          /\ ListIs(lists.pe, "PE", cfg, ClaimedPE)
          /\ ListIs(lists.ee, "EE", cfg, ClaimedEE)
    /\ (op = "count" /\ pc # "idle") =>
          /\ pc = "done"
          /\ counts = [num_pp |-> ClaimedSize(cfg, ClaimedPP),
                       num_pe |-> ClaimedSize(cfg, ClaimedPE),
                       num_ee |-> ClaimedSize(cfg, ClaimedEE)]

\* some factor stands at two positions of t
HasRepeatedFactor(t) ==
    \E j, k \in 1..Len(t.factors) : j < k /\ t.factors[j] = t.factors[k]

\* C4: the search is a subset search: each recursive call starts one index
\* above the index just chosen, so the chosen indices strictly increase
\* along every recursion path and no returned structure holds the same
\* factor twice (PP factors and the Unrestricted pattern included).
C4_SubsetSearch ==
    /\ pc = "dfs" =>
         \A k \in 2..Len(stack) : stack[k].idx_start = stack[k - 1].i + 1
    /\ Returned => \A t \in Results : ~HasRepeatedFactor(t)

\* lexicographic order of factor sequences under the claimed factor order;
\* a proper prefix is smaller
ClaimedSeqLess(x, y) ==
    \E p \in 1..Len(y) :
        /\ \A q \in 1..(p - 1) : q <= Len(x) /\ x[q] = y[q]
        /\ (p > Len(x) \/ ClaimedFactorLess(x[p], y[p]))

NonDecreasing(fs) ==
    \A k \in 1..(Len(fs) - 1) : ~ClaimedFactorLess(fs[k + 1], fs[k])

\* C5: the returned sequence is strictly ascending under the
\* TensorStructure order, its members are pairwise distinct, and each
\* member's factor sequence is non-decreasing under the ScalarFactor order.
C5_SortedCanonical ==
    Returned =>
        /\ \A k \in 1..(Len(result) - 1) :
              ClaimedSeqLess(result[k].factors, result[k + 1].factors)
        /\ Cardinality({result[k].factors : k \in 1..Len(result)})
               = Len(result)
        /\ \A t \in Results : NonDecreasing(t.factors)

C5_Witness ==
    /\ Returned
    /\ Len(result) >= 3
    /\ \E t \in Results : Len(t.factors) = 2 /\ t.factors[1] # t.factors[2]
    /\ \E t, u \in Results : t.factors[1].kind # u.factors[1].kind

\* a finished Unrestricted call that repeated a OnePerLeg call
PairDone == op = "gen" /\ pc = "done" /\ prev.valid

PrevResults == {prev.result[k] : k \in 1..Len(prev.result)}

\* C6: with n_legs, transversality, degree and EE count fixed, every
\* structure returned under OnePerLeg is returned under Unrestricted.
C6_Superset == PairDone => PrevResults \subseteq Results

C6_Witness == PairDone /\ Len(prev.result) >= 2 /\ cfg.n_legs = MaxLegs

\* C7: target_degree = 0 and ee_contractions > target_degree are answered
\* with the empty sequence and no failure, for every config.
C7_DegenerateEmpty ==
    (op = "gen" /\ pc # "idle"
        /\ (target_degree = 0 \/ ee_contractions > target_degree)) =>
        pc = "done" /\ result = <<>>

C7_Witness ==
    /\ op = "gen"
    /\ pc = "done"
    /\ target_degree = 0
    /\ ee_contractions = 0
    /\ cfg.pol_pattern = "Unrestricted"
    /\ result = <<>>

CountersInRange(st) ==
    /\ st.cur.ee_contractions \in 0..U8Max
    /\ st.pe_so_far \in 0..U8Max
    /\ \A r \in DOMAIN st.pol_count : st.pol_count[r] \in 0..U8Max

FactorInRange(f, n) ==
    /\ f.a \in 1..n
    /\ f.b \in 1..n
    /\ f.kind \in {"PP", "EE"} => f.a < f.b

\* C9: for every n_legs in 1..255 no arithmetic of the catalog builder or of
\* the search leaves its integer width (nothing panics, nothing wraps), so
\* every catalog factor has its legs in [1, n_legs], with a < b for PP and
\* EE, and no more factors exist than such pairs.
C9_NoOverflow ==
    /\ pc # "panic"
    /\ \A k \in 1..Len(s.catalog) : FactorInRange(s.catalog[k], cfg.n_legs)
    /\ CountersInRange(s)
    /\ (op = "count" /\ pc = "done") =>
          /\ counts.num_pp <= ClaimedSize(cfg, ClaimedEE)
          /\ counts.num_ee <= ClaimedSize(cfg, ClaimedEE)

\* C10: when a call of dfs_emit returns, the partial structure, its cached
\* EE count, the PE count and every per-leg counter are what they were on
\* entry; the cached EE count is the number of EE factors at every node; and
\* after the top-level call the partial structure is empty and all counters
\* are zero.
C10_StackDiscipline ==
    /\ (pc = "dfs" /\ Returning) => Snapshot(s) = Top.entry
    /\ s.cur.ee_contractions = CountEE(s.cur.factors)
    /\ Returned =>
          /\ s.cur = NewTensorStructure
          /\ s.pe_so_far = 0
          /\ \A r \in DOMAIN s.pol_count : s.pol_count[r] = 0

C10_Witness ==
    /\ pc = "dfs"
    /\ Returning
    /\ Top.at = "loop"
    /\ Len(stack) = 2
    /\ s.enforce_one_pol
    /\ s.cur.ee_contractions = 1
    /\ s.pol_count[1] = 1

====
